---- MODULE Spec2Model ----
(***************************************************************************)
(* Model of the Circuit5 UNO R4 firmware core:                             *)
(*   - the credential store of WiFiProvisioning.cpp (EEPROM slot behind a  *)
(*     validity marker), and                                               *)
(*   - the broker session and telemetry publisher of MqttTelemetry.cpp.    *)
(* Bytes are integers 0..255.  C strings are sequences of bytes; Arduino   *)
(* String payloads are TLA+ strings.                                       *)
(***************************************************************************)
EXTENDS Integers, Sequences, FiniteSets, TLC

VARIABLES
    eeprom,        \* the EEPROM cells of the record slot, cell k at index k+1
    creds,         \* the caller's WifiCredentials object (RAM)
    loadResult,    \* value returned by the last loadWifiCredentials call
    lastOp,        \* the last store operation called
    prevOp,        \* the store operation called before lastOp
    savedRec,      \* argument of the last saveWifiCredentials call
    erases         \* clearWifiCredentials calls since the last save

storeVars == <<eeprom, creds, loadResult, lastOp, prevOp, savedRec, erases>>

VARIABLES
    wifiUp,        \* environment: the station link is up
    brokerAccepts, \* environment: the broker answers CONNECT with CONNACK ok
    connected,     \* gMqttClient.connected()
    pc,            \* position of the single thread of control
    ret,           \* where connectToMqttBroker returns to
    attempts,      \* local `attempts` of connectToMqttBroker
    call,          \* the public operation in progress
    elapsed,       \* milliseconds spent in delay() since the call began
    attemptTimes,  \* value of elapsed at each connect() of the current call
    trace,         \* session states passed through since the call began
    callEnvGood,   \* Wi-Fi up and broker accepting ever since the call began
    callWifiDown,  \* Wi-Fi down ever since the call began
    startLost,     \* the call began with a session lost from Connected
    lost,          \* the session was Connected and the transport closed since
    everGaveUp,    \* some invocation has returned after 5 failed attempts
    nextId,        \* number of mqttPublishTelemetry calls made so far
    calls,         \* the sample passed to each mqttPublishTelemetry call
    curSample,     \* arguments of the mqttPublishTelemetry call in progress
    outcome,       \* how each mqttPublishTelemetry call returned
    connFailed,    \* the publish calls whose connect procedure gave up
    wire           \* PUBLISH messages handed to the framer, in order

mqttVars == <<wifiUp, brokerAccepts, connected, pc, ret, attempts, call, elapsed,
              attemptTimes, trace, callEnvGood, callWifiDown, startLost, lost,
              everGaveUp, nextId, calls, curSample, outcome, connFailed, wire>>

VARIABLES
    fnPc,          \* pure-function harness: which call has been made
    fnIn,          \* what the text was built from (bytes, or name/value pairs)
    fnText,        \* the String handed to the function
    fnName,        \* the field name handed to getFormField
    fnOut,         \* the String returned by getFormField
    fnDec          \* the String returned by urlDecode

pureVars == <<fnPc, fnIn, fnText, fnName, fnOut, fnDec>>

VARIABLES
    portalPc,      \* "off", "boot", "loaded", "fatal", "idle", "reading"
    inbox,         \* lines of the current client not yet read
    requestLine,   \* handleConfigClient: requestLine
    headers,       \* handleConfigClient: headers
    body,          \* handleConfigClient: body
    isPost,        \* handleConfigClient: isPost
    inHeaders,     \* handleConfigClient: inHeaders
    request,       \* history: what the last accepted client set out to send
    exitBy,        \* history: how the read loop of the last client ended
    response,      \* history: the page sent to the last client
    wrote,         \* history: the last client's request wrote the store
    everSaved,     \* history: a request to POST /save has been handled
    expected,      \* history: record built from the last request to POST /save
    validBefore    \* history: load() would succeed when the client was accepted

portalVars == <<portalPc, inbox, requestLine, headers, body, isPost, inHeaders,
                request, exitBy, response, wrote, everSaved, expected,
                validBefore>>

VARIABLES
    joinPc,        \* connectWithStoredCredentials: position
    radio,         \* the radio module is present
    timeoutMs,     \* connectWithStoredCredentials: timeoutMs (in ticks)
    joinStart,     \* connectWithStoredCredentials: start (in ticks)
    clock,         \* millis() (in ticks), as wide as an unsigned long
    sinceStart,    \* history: ticks really elapsed since start was taken
    beginTimes,    \* history: the last WiFi.begin calls, when and how they ended
    rounds,        \* history: loop rounds taken one by one
    joinResult     \* history: what the call returned

joinVars == <<joinPc, radio, timeoutMs, joinStart, clock, sinceStart,
              beginTimes, rounds, joinResult>>

restVars == <<pureVars, portalVars, joinVars>>

vars == <<storeVars, mqttVars, restVars>>

-----------------------------------------------------------------------------
(* Bounds of the model *)

MaxLen == 1          \* longest ssid / password string drawn as an input
MaxErases == 2       \* clearWifiCredentials calls counted between two saves
MaxPublishes == 2    \* mqttPublishTelemetry calls per behaviour

(* Program constants *)

WIFI_MAGIC == 66       \* 0x42
EEPROM_ADDR == 0
SsidSize == 32         \* sizeof(WifiCredentials::ssid)
PasswordSize == 64     \* sizeof(WifiCredentials::password)
MaxAttempts == 5
BackoffMs == 2000
DecimalPlaces == 2

-----------------------------------------------------------------------------
(* WifiCredentials and its EEPROM image *)

RecordSize == 1 + SsidSize + PasswordSize     \* sizeof(WifiCredentials)

Zeros(n) == [i \in 1..n |-> 0]

Fill(n, b) == [i \in 1..n |-> b]

\* The struct: one byte, then the two char arrays, no padding.
WifiCredentials(m, s, p) == [magic |-> m, ssid |-> s, password |-> p]

\* Object representation of a WifiCredentials, as EEPROM.put walks it.
ToBytes(r) == <<r.magic>> \o r.ssid \o r.password

\* A WifiCredentials rebuilt from its object representation (EEPROM.get).
FromBytes(b) ==
    WifiCredentials(b[1], SubSeq(b, 2, 1 + SsidSize),
                    SubSeq(b, 2 + SsidSize, RecordSize))

\* EEPROM.put(addr, t): cell addr+k receives byte k of t, other cells stay.
EepromPut(mem, addr, bytes) ==
    [i \in DOMAIN mem |->
        IF addr < i /\ i <= addr + Len(bytes) THEN bytes[i - addr] ELSE mem[i]]

\* EEPROM.get(addr, t): sizeof(t) cells starting at addr.
EepromGet(mem, addr, n) == SubSeq(mem, addr + 1, addr + n)

\* A validity test that looks at the marker only.
LoadValidMagicOnly(r) == r.magic = WIFI_MAGIC

\* The two validity tests of loadWifiCredentials on the record just read.
LoadValid(r) == r.magic = WIFI_MAGIC /\ r.ssid[1] # 0

\* loadWifiCredentials: the record read into creds and the value returned.
LoadRecord(mem) == FromBytes(EepromGet(mem, EEPROM_ADDR, RecordSize))

\* A save that leaves the slot alone when the record has an empty ssid.
SaveImageIfNamed(mem, r) ==
    IF r.ssid[1] = 0 THEN mem ELSE EepromPut(mem, EEPROM_ADDR, ToBytes(r))

\* A save that leaves out the last byte of the object.
SaveImageShort(mem, r) ==
    EepromPut(mem, EEPROM_ADDR, SubSeq(ToBytes(r), 1, RecordSize - 1))

\* saveWifiCredentials: the EEPROM after EEPROM.put(EEPROM_ADDR, creds).
SaveImage(mem, r) == EepromPut(mem, EEPROM_ADDR, ToBytes(r))

\* A clear that zeroes the local object and never writes it.
ClearImageNoPut(mem) == mem

\* clearWifiCredentials: memset(&empty, 0, sizeof empty), then EEPROM.put.
ClearImage(mem) == EepromPut(mem, EEPROM_ADDR, Zeros(RecordSize))

-----------------------------------------------------------------------------
(* Inputs of the credential store *)

Alphabet == {65, 66}        \* 'A', 'B' (66 is also the marker value)

Strings == UNION {[1..n -> Alphabet] : n \in 0..MaxLen}

\* A char array of the given size holding s, its terminator, and then the
\* fill byte: zero padding, or stale non-zero bytes past the terminator.
CharArray(s, size, f) == s \o <<0>> \o Fill(size - Len(s) - 1, f)

\* s with its letters exchanged, so that ssid and password differ.
Swapped(s) == [i \in 1..Len(s) |-> IF s[i] = 65 THEN 66 ELSE 65]

MagicBytes == {WIFI_MAGIC, 0}

Records ==
    {WifiCredentials(m, CharArray(s, SsidSize, f),
                     CharArray(Swapped(s), PasswordSize, f)) :
        m \in MagicBytes, s \in Strings, f \in {0, 255}}

\* What the slot may hold before the first operation: erased flash (0xFF),
\* all zero, or any earlier record image.
InitialImages ==
    {Fill(RecordSize, 255), Zeros(RecordSize)} \cup {ToBytes(r) : r \in Records}

ZeroRecord == WifiCredentials(0, Zeros(SsidSize), Zeros(PasswordSize))

-----------------------------------------------------------------------------
(* Telemetry payload *)

MQTT_TOPIC == "hope/iot/circuit5/living-room/uno-r4/telemetry"

\* A float is modelled by its value in thousandths (22.4 is 22400).
TelemetrySample(t, h, s) == [temperature |-> t, humidity |-> h, status |-> s]

Samples ==
    {TelemetrySample(22400, 48100, "ok"), TelemetrySample(-5250, 50000, "err")}

DigitChar == <<"0", "1", "2", "3", "4", "5", "6", "7", "8", "9">>

RECURSIVE Pow10(_)
Pow10(n) == IF n = 0 THEN 1 ELSE 10 * Pow10(n - 1)

\* Decimal digits of a natural number, no leading zeros.
RECURSIVE NatToString(_)
NatToString(n) ==
    IF n < 10 THEN DigitChar[n + 1]
    ELSE NatToString(n \div 10) \o DigitChar[(n % 10) + 1]

\* The low `width` decimal digits of n, zero-filled on the left.
RECURSIVE FracDigits(_, _)
FracDigits(n, width) ==
    IF width = 0 THEN ""
    ELSE FracDigits(n \div 10, width - 1) \o DigitChar[(n % 10) + 1]

\* dtostrf(v, dp + 2, dp, buf): sign, integer part, '.', dp rounded digits.
FormatFixed(v, dp) ==
    LET a == IF v < 0 THEN 0 - v ELSE v
        scaled == (a * Pow10(dp) + 500) \div 1000
    IN  (IF v < 0 THEN "-" ELSE "")
            \o NatToString(scaled \div Pow10(dp))
            \o (IF dp > 0 THEN "." \o FracDigits(scaled % Pow10(dp), dp) ELSE "")

\* A formatter that prints one digit fewer than asked.
FloatToStringShort(v, dp) == FormatFixed(v, dp - 1)

\* String(float value, unsigned char decimalPlaces)
FloatToString(v, dp) == FormatFixed(v, dp)

\* The JSON text built by mqttPublishTelemetry.
Payload(s) ==
    "{" \o "\"deviceId\":\"uno-r4-living-room\","
        \o "\"temperature\":" \o FloatToString(s.temperature, DecimalPlaces)
        \o ","
        \o "\"humidity\":" \o FloatToString(s.humidity, DecimalPlaces)
        \o ","
        \o "\"status\":\"" \o s.status \o "\"}"

\* A framer hand-over that sends the message twice.
SubmitTwice(w, msg) == w \o <<msg, msg>>

\* beginMessage(topic); print(payload); endMessage(): one PUBLISH.
Submit(w, msg) == Append(w, msg)

-----------------------------------------------------------------------------
(* The pure-function harness at rest *)

PureRest ==
    /\ fnPc = "none"
    /\ fnIn = <<>>
    /\ fnText = <<>>
    /\ fnName = <<>>
    /\ fnOut = <<>>
    /\ fnDec = <<>>

\* What a client sends: the request line, the header lines, the chunks in
\* which the body arrives.
Request(l, h, c) == [line |-> l, headers |-> h, chunks |-> c]

NoRequest == Request(<<>>, <<>>, <<>>)

\* The provisioning portal has not been started.
PortalRest ==
    /\ portalPc = "off"
    /\ inbox = <<>>
    /\ requestLine = <<>>
    /\ headers = <<>>
    /\ body = <<>>
    /\ isPost = FALSE
    /\ inHeaders = TRUE
    /\ request = NoRequest
    /\ exitBy = "none"
    /\ response = "none"
    /\ wrote = FALSE
    /\ everSaved = FALSE
    /\ expected = ZeroRecord
    /\ validBefore = FALSE

\* connectWithStoredCredentials has not been called.
JoinRest ==
    /\ joinPc = "off"
    /\ radio = TRUE
    /\ timeoutMs = 0
    /\ joinStart = 0
    /\ clock = 0
    /\ sinceStart = 0
    /\ beginTimes = <<>>
    /\ rounds = 0
    /\ joinResult = "none"

OthersRest == PureRest /\ PortalRest /\ JoinRest

-----------------------------------------------------------------------------
(* The broker session at rest: the values the telemetry variables keep while
   only the credential store is exercised *)

MqttRest ==
    /\ wifiUp = TRUE
    /\ brokerAccepts = TRUE
    /\ connected = FALSE
    /\ pc = "boot"
    /\ ret = "main"
    /\ attempts = 0
    /\ call = "none"
    /\ elapsed = 0
    /\ attemptTimes = <<>>
    /\ trace = <<>>
    /\ callEnvGood = FALSE
    /\ callWifiDown = FALSE
    /\ startLost = FALSE
    /\ lost = FALSE
    /\ everGaveUp = FALSE
    /\ nextId = 0
    /\ calls = <<>>
    /\ curSample = <<>>
    /\ outcome = <<>>
    /\ connFailed = {}
    /\ wire = <<>>

-----------------------------------------------------------------------------
(* Credential store operations *)

StoreRest ==
    /\ creds = ZeroRecord
    /\ loadResult = FALSE
    /\ lastOp = "none"
    /\ prevOp = "none"
    /\ savedRec = ZeroRecord
    /\ erases = 0

StoreInit ==
    /\ eeprom \in InitialImages
    /\ StoreRest
    /\ MqttRest
    /\ OthersRest

\* bool loadWifiCredentials(WifiCredentials &creds)
Load ==
    /\ creds' = LoadRecord(eeprom)
    /\ loadResult' = LoadValid(creds')
    /\ lastOp' = "load"
    /\ prevOp' = lastOp
    /\ UNCHANGED <<eeprom, savedRec, erases, mqttVars, restVars>>

\* void saveWifiCredentials(const WifiCredentials &creds)
Save(r) ==
    /\ eeprom' = SaveImage(eeprom, r)
    /\ savedRec' = r
    /\ erases' = 0
    /\ lastOp' = "save"
    /\ prevOp' = lastOp
    /\ UNCHANGED <<creds, loadResult, mqttVars, restVars>>

\* void clearWifiCredentials()
Erase ==
    /\ erases < MaxErases
    /\ eeprom' = ClearImage(eeprom)
    /\ erases' = erases + 1
    /\ lastOp' = "erase"
    /\ prevOp' = lastOp
    /\ UNCHANGED <<creds, loadResult, savedRec, mqttVars, restVars>>

SaveAny == \E r \in Records : Save(r)

StoreNext == Load \/ SaveAny \/ Erase

StoreSpec == StoreInit /\ [][StoreNext]_vars

-----------------------------------------------------------------------------
(* Broker session and telemetry publisher *)

\* The session state of the design's state machine, read off the code:
\* connected() true is Connected; inside connect() is Connecting; between a
\* failed connect() and the next one is Backoff; otherwise Idle.
SessionState(c, p, a) ==
    IF c THEN "Connected"
    ELSE IF p = "connack" THEN "Connecting"
    ELSE IF p \in {"connect", "delay"} /\ a > 0 THEN "Backoff"
    ELSE "Idle"

\* trace follows the session state reached by the step, while a public
\* operation is in progress.
Track ==
    LET now == SessionState(connected', pc', attempts')
    IN  trace' = IF call' = "none" THEN <<>>
                 ELSE IF trace # <<>> /\ trace[Len(trace)] = now THEN trace
                 ELSE Append(trace, now)

\* Book-keeping at the return of a public operation.
EndCall ==
    /\ call' = "none"
    /\ elapsed' = 0
    /\ attemptTimes' = <<>>
    /\ callEnvGood' = FALSE
    /\ callWifiDown' = FALSE
    /\ startLost' = FALSE

\* The operation in progress goes on.
SameCall ==
    UNCHANGED <<call, elapsed, attemptTimes, callEnvGood, callWifiDown,
                startLost>>

\* Book-keeping at the entry of a public operation.
BeginCall(kind) ==
    /\ call' = kind
    /\ elapsed' = 0
    /\ attemptTimes' = <<>>
    /\ callEnvGood' = (wifiUp /\ brokerAccepts)
    /\ callWifiDown' = ~wifiUp
    /\ startLost' = (lost /\ ~connected)
    /\ trace' = <<SessionState(connected, "main", 0)>>

MqttInit ==
    /\ eeprom = Zeros(RecordSize)
    /\ StoreRest
    /\ OthersRest
    /\ wifiUp = TRUE
    /\ brokerAccepts \in BOOLEAN
    /\ connected = FALSE
    /\ pc = "boot"
    /\ ret = "main"
    /\ attempts = 0
    /\ call = "none"
    /\ elapsed = 0
    /\ attemptTimes = <<>>
    /\ trace = <<>>
    /\ callEnvGood = FALSE
    /\ callWifiDown = FALSE
    /\ startLost = FALSE
    /\ lost = FALSE
    /\ everGaveUp = FALSE
    /\ nextId = 0
    /\ calls = <<>>
    /\ curSample = <<>>
    /\ outcome = <<>>
    /\ connFailed = {}
    /\ wire = <<>>

\* mqttSetup(): configure the client, then connectToMqttBroker().
Setup ==
    /\ pc = "boot"
    /\ pc' = "connect"
    /\ ret' = "main"
    /\ attempts' = 0
    /\ BeginCall("start")
    /\ UNCHANGED <<storeVars, restVars, wifiUp, brokerAccepts, connected, lost,
                   everGaveUp, nextId, calls, curSample, outcome, connFailed,
                   wire>>

\* The main loop calls mqttLoop().
CallTick ==
    /\ pc = "main"
    /\ pc' = "loop_check"
    /\ BeginCall("tick")
    /\ UNCHANGED <<storeVars, restVars, wifiUp, brokerAccepts, connected, ret, attempts,
                   lost, everGaveUp, nextId, calls, curSample, outcome,
                   connFailed, wire>>

\* A mqttLoop that reconnects only until some invocation has given up.
LoopCheckLatched ==
    /\ pc = "loop_check"
    /\ IF ~connected /\ ~everGaveUp
       THEN pc' = "connect" /\ ret' = "loop_poll" /\ attempts' = 0
       ELSE pc' = "loop_poll" /\ UNCHANGED <<ret, attempts>>
    /\ UNCHANGED <<storeVars, restVars, wifiUp, brokerAccepts, connected, call, elapsed,
                   attemptTimes, callEnvGood, callWifiDown, startLost, lost,
                   everGaveUp, nextId, calls, curSample, outcome, connFailed,
                   wire>>
    /\ Track

\* A mqttLoop whose test is inverted: it never reconnects a lost session.
LoopCheckInverted ==
    /\ pc = "loop_check"
    /\ IF connected
       THEN pc' = "connect" /\ ret' = "loop_poll" /\ attempts' = 0
       ELSE pc' = "loop_poll" /\ UNCHANGED <<ret, attempts>>
    /\ UNCHANGED <<storeVars, restVars, wifiUp, brokerAccepts, connected, call, elapsed,
                   attemptTimes, callEnvGood, callWifiDown, startLost, lost,
                   everGaveUp, nextId, calls, curSample, outcome, connFailed,
                   wire>>
    /\ Track

\* mqttLoop: if (!gMqttClient.connected()) connectToMqttBroker();
LoopCheck ==
    /\ pc = "loop_check"
    /\ IF ~connected
       THEN pc' = "connect" /\ ret' = "loop_poll" /\ attempts' = 0
       ELSE pc' = "loop_poll" /\ UNCHANGED <<ret, attempts>>
    /\ UNCHANGED <<storeVars, restVars, wifiUp, brokerAccepts, connected, call, elapsed,
                   attemptTimes, callEnvGood, callWifiDown, startLost, lost,
                   everGaveUp, nextId, calls, curSample, outcome, connFailed,
                   wire>>
    /\ Track

\* mqttLoop: gMqttClient.poll(); then return to the main loop.
LoopPoll ==
    /\ pc = "loop_poll"
    /\ pc' = "main"
    /\ EndCall
    /\ UNCHANGED <<storeVars, restVars, wifiUp, brokerAccepts, connected, ret, attempts,
                   lost, everGaveUp, nextId, calls, curSample, outcome,
                   connFailed, wire>>
    /\ Track

\* The main loop calls mqttPublishTelemetry(temperature, humidity, status).
CallPublish(s) ==
    /\ pc = "main"
    /\ nextId < MaxPublishes
    /\ nextId' = nextId + 1
    /\ calls' = Append(calls, s)
    /\ outcome' = Append(outcome, "pending")
    /\ curSample' = s
    /\ pc' = "pub_check"
    /\ BeginCall("publish")
    /\ UNCHANGED <<storeVars, restVars, wifiUp, brokerAccepts, connected, ret, attempts,
                   lost, everGaveUp, connFailed, wire>>

\* mqttPublishTelemetry: if (!gMqttClient.connected()) connectToMqttBroker();
PubCheck ==
    /\ pc = "pub_check"
    /\ IF ~connected
       THEN pc' = "connect" /\ ret' = "pub_recheck" /\ attempts' = 0
       ELSE pc' = "pub_emit" /\ UNCHANGED <<ret, attempts>>
    /\ UNCHANGED <<storeVars, restVars, wifiUp, brokerAccepts, connected, call, elapsed,
                   attemptTimes, callEnvGood, callWifiDown, startLost, lost,
                   everGaveUp, nextId, calls, curSample, outcome, connFailed,
                   wire>>
    /\ Track

\* A publish that goes on to emit without the second connected() test.
PubRecheckFallThrough ==
    /\ pc = "pub_recheck"
    /\ pc' = "pub_emit"
    /\ UNCHANGED <<storeVars, restVars, wifiUp, brokerAccepts, connected, ret, attempts,
                   call, elapsed, attemptTimes, callEnvGood, callWifiDown,
                   startLost, lost, everGaveUp, nextId, calls, curSample,
                   outcome, connFailed, wire>>
    /\ Track

\* mqttPublishTelemetry, after connectToMqttBroker() has returned:
\* if (!gMqttClient.connected()) { log; return; }
PubRecheck ==
    /\ pc = "pub_recheck"
    /\ IF ~connected
       THEN /\ pc' = "main"
            /\ EndCall
            /\ outcome' = [outcome EXCEPT ![nextId] = "dropped"]
       ELSE /\ pc' = "pub_emit"
            /\ SameCall
            /\ UNCHANGED outcome
    /\ UNCHANGED <<storeVars, restVars, wifiUp, brokerAccepts, connected, ret, attempts,
                   lost, everGaveUp, nextId, calls, curSample, connFailed,
                   wire>>
    /\ Track

\* mqttPublishTelemetry: build the payload, hand one PUBLISH to the framer.
PubEmit ==
    /\ pc = "pub_emit"
    /\ wire' = Submit(wire, [id |-> nextId, topic |-> MQTT_TOPIC,
                             payload |-> Payload(curSample)])
    /\ outcome' = [outcome EXCEPT ![nextId] = "sent"]
    /\ pc' = "main"
    /\ EndCall
    /\ UNCHANGED <<storeVars, restVars, wifiUp, brokerAccepts, connected, ret, attempts,
                   lost, everGaveUp, nextId, calls, curSample, connFailed>>
    /\ Track

\* connectToMqttBroker: gMqttClient.connect(MQTT_BROKER, MQTT_PORT) is called;
\* the transport is opened and CONNECT is sent.
ConnSend ==
    /\ pc = "connect"
    /\ pc' = "connack"
    /\ attemptTimes' = Append(attemptTimes, elapsed)
    /\ UNCHANGED <<storeVars, restVars, wifiUp, brokerAccepts, connected, ret, attempts,
                   call, elapsed, callEnvGood, callWifiDown, startLost, lost,
                   everGaveUp, nextId, calls, curSample, outcome, connFailed,
                   wire>>
    /\ Track

\* connectToMqttBroker returns to its caller; `attempts` goes out of scope.
ConnReturn ==
    /\ pc' = ret
    /\ attempts' = 0
    /\ IF ret = "main" THEN EndCall ELSE SameCall

\* What follows the return of connect(): on success leave the loop; on
\* failure count the attempt and either give up or go on to delay(2000).
ConnOutcome(limit) ==
    IF wifiUp /\ brokerAccepts
    THEN /\ connected' = TRUE
         /\ lost' = FALSE
         /\ ConnReturn
         /\ UNCHANGED <<everGaveUp, connFailed>>
    ELSE /\ IF attempts + 1 >= limit
            THEN /\ ConnReturn
                 /\ everGaveUp' = TRUE
                 /\ connFailed' = IF call = "publish"
                                  THEN connFailed \cup {nextId} ELSE connFailed
            ELSE /\ attempts' = attempts + 1
                 /\ pc' = "delay"
                 /\ SameCall
                 /\ UNCHANGED <<everGaveUp, connFailed>>
         /\ UNCHANGED <<connected, lost>>

\* A connect loop that gives up one failure too late.
ConnResultLate ==
    /\ pc = "connack"
    /\ ConnOutcome(MaxAttempts + 1)
    /\ UNCHANGED <<storeVars, restVars, wifiUp, brokerAccepts, ret, nextId, calls,
                   curSample, outcome, wire>>
    /\ Track

\* connectToMqttBroker: connect() returns.
ConnResult ==
    /\ pc = "connack"
    /\ ConnOutcome(MaxAttempts)
    /\ UNCHANGED <<storeVars, restVars, wifiUp, brokerAccepts, ret, nextId, calls,
                   curSample, outcome, wire>>
    /\ Track

\* connectToMqttBroker: delay(2000), then back to the loop test.
ConnDelay ==
    /\ pc = "delay"
    /\ elapsed' = elapsed + BackoffMs
    /\ pc' = "connect"
    /\ UNCHANGED <<storeVars, restVars, wifiUp, brokerAccepts, connected, ret, attempts,
                   call, attemptTimes, callEnvGood, callWifiDown, startLost,
                   lost, everGaveUp, nextId, calls, curSample, outcome,
                   connFailed, wire>>
    /\ Track

(* The environment *)

\* The station link drops; the framer may or may not see its socket closed
\* at once.
WifiDrop ==
    /\ wifiUp
    /\ wifiUp' = FALSE
    /\ connected' \in {connected, FALSE}
    /\ lost' = (lost \/ (connected /\ ~connected'))
    /\ callEnvGood' = FALSE
    /\ UNCHANGED <<pc, attempts, callWifiDown>>
    /\ UNCHANGED <<storeVars, restVars, brokerAccepts, ret, call, elapsed, attemptTimes,
                   startLost, everGaveUp, nextId, calls, curSample, outcome,
                   connFailed, wire>>
    /\ Track

WifiReturn ==
    /\ ~wifiUp
    /\ wifiUp' = TRUE
    /\ callWifiDown' = FALSE
    /\ UNCHANGED <<storeVars, restVars, brokerAccepts, connected, pc, ret, attempts,
                   call, elapsed, attemptTimes, trace, callEnvGood, startLost,
                   lost, everGaveUp, nextId, calls, curSample, outcome,
                   connFailed, wire>>

\* The broker starts rejecting CONNECT.
BrokerReject ==
    /\ brokerAccepts
    /\ brokerAccepts' = FALSE
    /\ callEnvGood' = FALSE
    /\ UNCHANGED callWifiDown
    /\ UNCHANGED <<storeVars, restVars, wifiUp, connected, pc, ret, attempts, call,
                   elapsed, attemptTimes, trace, startLost, lost, everGaveUp,
                   nextId, calls, curSample, outcome, connFailed, wire>>

\* The broker starts accepting CONNECT.
BrokerAccept ==
    /\ ~brokerAccepts
    /\ brokerAccepts' = TRUE
    /\ UNCHANGED <<storeVars, restVars, wifiUp, connected, pc, ret, attempts, call,
                   elapsed, attemptTimes, trace, callEnvGood, callWifiDown,
                   startLost, lost, everGaveUp, nextId, calls, curSample,
                   outcome, connFailed, wire>>

\* The transport of a connected session is closed (session lost).
TransportClose ==
    /\ connected
    /\ connected' = FALSE
    /\ lost' = TRUE
    /\ UNCHANGED <<pc, attempts>>
    /\ UNCHANGED <<storeVars, restVars, wifiUp, brokerAccepts, ret, call, elapsed,
                   attemptTimes, callEnvGood, callWifiDown, startLost,
                   everGaveUp, nextId, calls, curSample, outcome, connFailed,
                   wire>>
    /\ Track

CallPublishAny == \E s \in Samples : CallPublish(s)

\* The steps of the firmware's single thread.
Program ==
    \/ Setup
    \/ CallTick
    \/ LoopCheck
    \/ LoopPoll
    \/ CallPublishAny
    \/ PubCheck
    \/ PubRecheck
    \/ PubEmit
    \/ ConnSend
    \/ ConnResult
    \/ ConnDelay

Environment ==
    \/ WifiDrop
    \/ WifiReturn
    \/ BrokerReject
    \/ BrokerAccept
    \/ TransportClose

MqttNext == Program \/ Environment

MqttSpec == MqttInit /\ [][MqttNext]_vars

\* The main loop never stops: the thread always takes its next step.
FairMqttSpec == MqttSpec /\ WF_vars(Program)

-----------------------------------------------------------------------------
(* Claims about the credential store, checked under StoreSpec *)

\* A load() that directly follows a save(r) of a record carrying the marker.
LoadAfterSave ==
    lastOp = "load" /\ prevOp = "save" /\ savedRec.magic = WIFI_MAGIC

\* C1 as stated: for any record r with the marker 0x42 set, save(r) followed
\* by load() returns a record byte-equal to r, whatever the slot held before.
C1_Original ==
    LoadAfterSave => (loadResult = TRUE /\ creds = savedRec)

\* C1 amended: for any record r with the marker 0x42 set and a non-empty ssid
\* (ssid[0] # 0), save(r) followed by load() returns a record byte-equal to
\* r, whatever the slot held before.  (With ssid[0] = 0 load() reports
\* NotFound.)
C1_RoundTrip ==
    (LoadAfterSave /\ savedRec.ssid[1] # 0)
        => (loadResult = TRUE /\ ToBytes(creds) = ToBytes(savedRec))

\* C1 witness: a valid record with stale bytes past its terminators has been
\* saved and loaded back.
C1_Witness ==
    /\ LoadAfterSave
    /\ savedRec.ssid[1] # 0
    /\ savedRec.ssid[SsidSize] = 255
    /\ loadResult = TRUE
    /\ creds = savedRec

\* C2: load() reports NotFound exactly when the stored marker byte is not
\* 0x42 or the stored ssid[0] is 0; for every other slot content it returns
\* the stored record as valid.
C2_ValidityGate ==
    lastOp = "load" =>
        /\ (loadResult = FALSE) <=>
               (eeprom[EEPROM_ADDR + 1] # WIFI_MAGIC \/ eeprom[EEPROM_ADDR + 2] = 0)
        /\ loadResult = TRUE => ToBytes(creds) = eeprom

\* C2 witness: a slot carrying the marker and an empty ssid was loaded and
\* reported NotFound.
C2_Witness ==
    /\ lastOp = "load"
    /\ eeprom[EEPROM_ADDR + 1] = WIFI_MAGIC
    /\ eeprom[EEPROM_ADDR + 2] = 0
    /\ loadResult = FALSE

\* C3: after erase() has been called one or more times with no save() in
\* between, load() returns NotFound, whatever the slot held before.
C3_EraseThenLoad ==
    (erases >= 1 /\ lastOp = "load") => loadResult = FALSE

\* C3 witness: a valid record was saved, erase() was then called twice, and
\* the load() after it reported NotFound.
C3_Witness ==
    /\ erases >= 2
    /\ lastOp = "load"
    /\ prevOp = "erase"
    /\ LoadValid(savedRec)
    /\ loadResult = FALSE

-----------------------------------------------------------------------------
(* Claims about the telemetry publisher, checked under MqttSpec and
   FairMqttSpec *)

\* C4 as stated: while Wi-Fi is down neither tick() nor publish(sample)
\* contacts the broker: a tick() or publish() that runs with Wi-Fi down from
\* its entry on makes no connect attempt and hands no PUBLISH to the framer.
C4_NoContactWhileDown ==
    (call \in {"tick", "publish"} /\ callWifiDown) =>
        /\ attemptTimes = <<>>
        /\ pc \notin {"connect", "connack", "delay", "pub_emit"}

\* The connect attempts of the operation in progress number at most 5 and
\* consecutive ones lie at least the 2-second pause apart.
ConnectBudget ==
    /\ Len(attemptTimes) <= MaxAttempts
    /\ \A i \in 2..Len(attemptTimes) :
          attemptTimes[i] - attemptTimes[i - 1] >= BackoffMs

\* C5: whatever the broker answers (in particular when it rejects every
\* CONNECT), a single tick() makes at most 5 connect attempts with a 2-second
\* pause between consecutive attempts, and the tick() returns to the caller.
C5_BoundedConnect ==
    /\ [](call = "tick" => ConnectBudget)
    /\ (call = "tick") ~> (call = "none")

\* C5 witness: a tick() is about to return after 5 rejected attempts, the
\* last one made 8 seconds of pauses into the call.
C5_Witness ==
    /\ call = "tick"
    /\ pc = "loop_poll"
    /\ ~connected
    /\ ~brokerAccepts
    /\ Len(attemptTimes) = MaxAttempts
    /\ attemptTimes[MaxAttempts] = (MaxAttempts - 1) * BackoffMs

\* C6: when a tick() begins with a session lost from Connected, and Wi-Fi is
\* up and the broker accepts CONNECT throughout, the session has gone from
\* Idle through Connecting to Connected by the time tick() polls and returns.
C6_Reconnect ==
    (call = "tick" /\ pc = "loop_poll" /\ startLost /\ callEnvGood) =>
        /\ Len(trace) >= 3
        /\ SubSeq(trace, 1, 3) = <<"Idle", "Connecting", "Connected">>
        /\ Len(attemptTimes) = 1

\* C6 witness: such a tick() is about to return with the session Connected.
C6_Witness ==
    /\ call = "tick"
    /\ pc = "loop_poll"
    /\ startLost
    /\ callEnvGood
    /\ connected
    /\ trace = <<"Idle", "Connecting", "Connected">>

\* C7: giving up after 5 failed attempts is per invocation only: if from some
\* point on Wi-Fi stays up and the broker accepts CONNECT, the session becomes
\* Connected again and again, however many invocations gave up before.
C7_EventuallyConnected ==
    <>[](wifiUp /\ brokerAccepts) => []<>connected

\* C7 witness: the session is Connected after an earlier invocation gave up.
C7_Witness ==
    connected /\ everGaveUp /\ wifiUp /\ brokerAccepts

\* The PUBLISH messages on the wire that belong to publish call k.
Emitted(k) == {i \in 1..Len(wire) : wire[i].id = k}

\* C8: a publish(sample) whose connect procedure failed emits no PUBLISH for
\* its sample and queues nothing: the call returns with the sample dropped
\* and no later tick() or publish() emits it.
C8_DroppedNeverSent ==
    \A k \in connFailed :
        /\ Emitted(k) = {}
        /\ outcome[k] \in {"pending", "dropped"}
        /\ (outcome[k] = "pending" => (nextId = k /\ pc = "pub_recheck"))

\* C8 witness: a sample was dropped after a failed connect, the session has
\* reconnected since, and a later publish has been emitted.
C8_Witness ==
    /\ 1 \in connFailed
    /\ outcome[1] = "dropped"
    /\ connected
    /\ Len(wire) >= 1

\* C9: the PUBLISH messages reach the framer in the order of the publish()
\* calls, all on the same configured topic, each carrying the payload of its
\* own call, and each publish() that emits submits exactly one PUBLISH.
C9_InOrder ==
    /\ \A i \in 1..Len(wire) :
          /\ wire[i].topic = MQTT_TOPIC
          /\ wire[i].payload = Payload(calls[wire[i].id])
          /\ \A j \in 1..Len(wire) : i < j => wire[i].id < wire[j].id
    /\ \A k \in 1..nextId :
          outcome[k] = "sent" => Cardinality(Emitted(k)) = 1

\* C9 witness: two publish() calls with different samples were both emitted.
C9_Witness ==
    /\ Len(wire) = 2
    /\ wire[1].id = 1
    /\ wire[2].id = 2
    /\ wire[1].payload # wire[2].payload
    /\ outcome = <<"sent", "sent">>

SpecSample == TelemetrySample(22400, 48100, "ok")

\* The calls publish({22.4, 48.1, "ok"}) that found the session Connected or
\* connected it, and so have emitted.
SentSpecSample == {k \in 1..nextId : calls[k] = SpecSample /\ outcome[k] = "sent"}

\* C10 as stated: publish of (22.4, 48.1, "ok") produces exactly one PUBLISH
\* on the configured topic whose payload prints the numbers as 22.4 and 48.1.
C10_Original ==
    \A k \in SentSpecSample :
        /\ Cardinality(Emitted(k)) = 1
        /\ \A i \in Emitted(k) :
              /\ wire[i].topic = "hope/iot/circuit5/living-room/uno-r4/telemetry"
              /\ wire[i].payload =
                  "{\"deviceId\":\"uno-r4-living-room\",\"temperature\":22.4,\"humidity\":48.1,\"status\":\"ok\"}"

\* C10 amended: publish of (22.4, 48.1, "ok") produces exactly one PUBLISH on
\* the configured topic whose payload is exactly
\* {"deviceId":"uno-r4-living-room","temperature":22.40,"humidity":48.10,"status":"ok"}
\* (both numbers are printed with two fractional digits).
C10_Payload ==
    \A k \in SentSpecSample :
        /\ Cardinality(Emitted(k)) = 1
        /\ \A i \in Emitted(k) :
              /\ wire[i].topic = "hope/iot/circuit5/living-room/uno-r4/telemetry"
              /\ wire[i].payload =
                  "{\"deviceId\":\"uno-r4-living-room\",\"temperature\":22.40,\"humidity\":48.10,\"status\":\"ok\"}"

\* C10 witness: the sample was published over a Connected session.
C10_Witness ==
    /\ SentSpecSample # {}
    /\ connected
    /\ \E i \in 1..Len(wire) : calls[wire[i].id] = SpecSample

-----------------------------------------------------------------------------
(* Arduino String operations used by the provisioning portal.  A String is
   the sequence of its bytes; index k of the code is index k+1 here. *)

\* String::startsWith(prefix)
StartsWith(s, prefix) ==
    Len(prefix) <= Len(s) /\ SubSeq(s, 1, Len(prefix)) = prefix

\* key occurs in s at code index i.
OccursAt(s, key, i) ==
    i + Len(key) <= Len(s) /\ SubSeq(s, i + 1, i + Len(key)) = key

\* An indexOf that reports index 0 when there is no occurrence.
IndexOfOrZero(s, key, from) ==
    LET hits == {i \in from..(Len(s) - Len(key)) : OccursAt(s, key, i)}
    IN  IF hits = {} THEN 0
        ELSE CHOOSE i \in hits : \A j \in hits : i <= j

\* String::indexOf(key, from): the least code index >= from where key
\* occurs, -1 when there is none.
IndexOf(s, key, from) ==
    LET hits == {i \in from..(Len(s) - Len(key)) : OccursAt(s, key, i)}
    IN  IF hits = {} THEN 0 - 1
        ELSE CHOOSE i \in hits : \A j \in hits : i <= j

\* The C string at the start of a buffer: the bytes before the first NUL.
CStr(s) ==
    LET nuls == {i \in 1..Len(s) : s[i] = 0}
    IN  IF nuls = {} THEN s
        ELSE SubSeq(s, 1, (CHOOSE i \in nuls : \A j \in nuls : i <= j) - 1)

\* String::substring(left, right): code indices left .. right-1, the two
\* swapped when left > right.
Substring(s, left, right) ==
    LET lo == IF left > right THEN right ELSE left
        hi == IF left > right THEN left ELSE right
        r == IF hi > Len(s) THEN Len(s) ELSE hi
    IN  IF lo >= Len(s) THEN <<>> ELSE CStr(SubSeq(s, lo + 1, r))

\* isspace() in the C locale.
IsSpace(c) == c \in {9, 10, 11, 12, 13, 32}

\* String::trim(): leading and trailing white space removed.
Trim(s) ==
    LET keep == {i \in 1..Len(s) : ~IsSpace(s[i])}
    IN  IF keep = {} THEN <<>>
        ELSE SubSeq(s, CHOOSE i \in keep : \A j \in keep : i <= j,
                       CHOOSE i \in keep : \A j \in keep : i >= j)

-----------------------------------------------------------------------------
(* getFormField and urlDecode *)

\* An extraction that takes the field up to the end of the body.
GetFormFieldToEnd(text, name) ==
    LET key == name \o <<61>>
        start == IndexOf(text, key, 0)
    IN  IF start < 0 THEN <<>>
        ELSE Substring(text, start + Len(key), Len(text))

\* static String getFormField(const String &body, const String &name)
GetFormField(text, name) ==
    LET key == name \o <<61>>                      \* name + "="
        start == IndexOf(text, key, 0)
    IN  IF start < 0 THEN <<>>
        ELSE LET from == start + Len(key)
                 amp == IndexOf(text, <<38>>, from)     \* '&'
                 end == IF amp < 0 THEN Len(text) ELSE amp
             IN  Substring(text, from, end)

\* h & ~0x20
ClearBit5(h) == IF (h \div 32) % 2 = 1 THEN h - 32 ELSE h

\* A hex digit value that knows the decimal digits only.
HexValueDigitsOnly(h) == h - 48

\* (h >= 'A') ? ((h & ~0x20) - 'A' + 10) : (h - '0')
HexValue(h) == IF h >= 65 THEN ClearBit5(h) - 65 + 10 ELSE h - 48

\* (char)((hi << 4) | (lo & 0x0F)): the low eight bits.
HexByte(h1, h2) == ((HexValue(h1) % 16) * 16) + (HexValue(h2) % 16)

\* One turn of the loop of urlDecode at code index i - 1: the bytes
\* appended to out, and the index the next turn starts at.
DecodeAt(src, i) ==
    IF src[i] = 43                                       \* '+'
    THEN [out |-> <<32>>, next |-> i + 1]
    ELSE IF src[i] = 37 /\ (i - 1) + 2 < Len(src)        \* '%', i + 2 < length
         THEN [out |-> <<HexByte(src[i + 1], src[i + 2])>>, next |-> i + 3]
    ELSE [out |-> <<src[i]>>, next |-> i + 1]

\* The turns of the loop that start at code indices lo - 1 .. hi - 1, the
\* first of them at lo - 1, computed half by half.
RECURSIVE DecodeRange(_, _, _)
DecodeRange(src, lo, hi) ==
    IF lo > hi THEN [out |-> <<>>, next |-> lo]
    ELSE IF lo = hi THEN DecodeAt(src, lo)
    ELSE LET left == DecodeRange(src, lo, (lo + hi) \div 2)
             right == DecodeRange(src, left.next, hi)
         IN  [out |-> left.out \o right.out, next |-> right.next]

\* static String urlDecode(const String &src)
UrlDecode(src) == DecodeRange(src, 1, Len(src)).out

-----------------------------------------------------------------------------
(* Form encoding, as a browser applies it to a submitted value *)

MaxBytes == 2        \* longest byte string that is encoded and decoded

HexUpper == <<48, 49, 50, 51, 52, 53, 54, 55, 56, 57, 65, 66, 67, 68, 69, 70>>

HexLower == <<48, 49, 50, 51, 52, 53, 54, 55, 56, 57, 97, 98, 99, 100, 101, 102>>

\* %HH with upper-case or lower-case hex digits.
Escapes(b) ==
    {<<37, hex[(b \div 16) + 1], hex[(b % 16) + 1]>> : hex \in {HexUpper, HexLower}}

\* Letters, digits and - . _ * stay literal.
Unreserved(b) ==
    \/ (48 <= b /\ b <= 57)
    \/ (65 <= b /\ b <= 90)
    \/ (97 <= b /\ b <= 122)
    \/ b \in {42, 45, 46, 95}

\* The ways one byte is form-encoded.
EncodeByte(b) ==
    IF b = 32 THEN {<<43>>} \cup Escapes(b)
    ELSE IF Unreserved(b) THEN {<<b>>}
    ELSE Escapes(b)

\* Every form encoding of a byte string.
RECURSIVE Encodings(_)
Encodings(bs) ==
    IF bs = <<>> THEN {<<>>}
    ELSE {h \o t : h \in EncodeByte(Head(bs)), t \in Encodings(Tail(bs))}

\* NUL, white space, the characters the encoding uses, letters of both
\* cases (hex letters among them), a digit, and bytes above 0x7F.
PlainBytes == {0, 10, 32, 37, 38, 43, 61, 65, 102, 57, 171, 255}

PlainStrings == UNION {[1..n -> PlainBytes] : n \in 0..MaxBytes}

DecodeInit ==
    /\ eeprom = Zeros(RecordSize)
    /\ StoreRest
    /\ MqttRest
    /\ PortalRest
    /\ JoinRest
    /\ fnPc = "encoded"
    /\ fnIn \in PlainStrings
    /\ fnText \in Encodings(fnIn)
    /\ fnName = <<>>
    /\ fnOut = <<>>
    /\ fnDec = <<>>

\* urlDecode is called on the encoded text.
DecodeCall ==
    /\ fnPc = "encoded"
    /\ fnDec' = UrlDecode(fnText)
    /\ fnPc' = "decoded"
    /\ UNCHANGED <<storeVars, mqttVars, portalVars, joinVars, fnIn, fnText, fnName, fnOut>>

DecodeNext == DecodeCall

DecodeSpec == DecodeInit /\ [][DecodeNext]_vars

\* C13: for every byte string b and every form encoding of it (space as +
\* or %20, other bytes as %HH in either case, unreserved characters
\* literal), urlDecode returns exactly b.
C13_DecodeFidelity ==
    fnPc = "decoded" => fnDec = fnIn

\* C13 witness: a string holding a space sent as + and a byte sent with
\* lower-case hex digits has been decoded to itself.
C13_Witness ==
    /\ fnPc = "decoded"
    /\ fnText = <<43, 37, 97, 98>>
    /\ fnDec = <<32, 171>>

-----------------------------------------------------------------------------
(* Form bodies: name=value pairs joined by & *)

MaxPairs == 2        \* most pairs in a generated form body

NameSsid == <<115, 115, 105, 100>>

NamePassword == <<112, 97, 115, 115, 119, 111, 114, 100>>

\* Field names: the two the portal reads, an unrelated one, and two that
\* end with a name the portal reads.
FieldNames ==
    {NameSsid, NamePassword, <<97>>, <<120>> \o NameSsid, <<120>> \o NamePassword}

\* Encoded values: "1", "2" and the empty value.
FieldValues == {<<49>>, <<50>>, <<>>}

Pairs == {<<n, v>> : n \in FieldNames, v \in FieldValues}

\* a=1&ssid=Hello%20World&password=p%26q
ExamplePairs ==
    << <<<<97>>, <<49>>>>,
       <<NameSsid, <<72, 101, 108, 108, 111, 37, 50, 48, 87, 111, 114, 108, 100>>>>,
       <<NamePassword, <<112, 37, 50, 54, 113>>>> >>

PairLists ==
    UNION {[1..n -> Pairs] : n \in 0..MaxPairs} \cup {ExamplePairs}

\* The body a browser sends for a list of pairs.
RECURSIVE FormBody(_)
FormBody(ps) ==
    IF ps = <<>> THEN <<>>
    ELSE Head(ps)[1] \o <<61>> \o Head(ps)[2]
         \o (IF Len(ps) = 1 THEN <<>> ELSE <<38>> \o FormBody(Tail(ps)))

FormInit ==
    /\ eeprom = Zeros(RecordSize)
    /\ StoreRest
    /\ MqttRest
    /\ PortalRest
    /\ JoinRest
    /\ fnPc = "body"
    /\ fnIn \in PairLists
    /\ fnText = FormBody(fnIn)
    /\ fnName \in {NameSsid, NamePassword}
    /\ fnOut = <<>>
    /\ fnDec = <<>>

\* urlDecode(getFormField(body, name)), as handleConfigClient calls it.
FormCall ==
    /\ fnPc = "body"
    /\ fnOut' = GetFormField(fnText, fnName)
    /\ fnDec' = UrlDecode(GetFormField(fnText, fnName))
    /\ fnPc' = "extracted"
    /\ UNCHANGED <<storeVars, mqttVars, portalVars, joinVars, fnIn, fnText, fnName>>

FormNext == FormCall

FormSpec == FormInit /\ [][FormNext]_vars

\* name ends with suffix.
EndsWith(name, suffix) ==
    /\ Len(suffix) <= Len(name)
    /\ SubSeq(name, Len(name) - Len(suffix) + 1, Len(name)) = suffix

\* Positions of the pairs named exactly name / whose name ends with name.
Named(ps, name) == {i \in 1..Len(ps) : ps[i][1] = name}

NamedLike(ps, name) == {i \in 1..Len(ps) : EndsWith(ps[i][1], name)}

First(S) == CHOOSE i \in S : \A j \in S : i <= j

\* C14 as stated: extracting a field that is present in the body returns
\* that field's raw value (the value of the first pair carrying the name).
C14_Original ==
    (fnPc = "extracted" /\ Named(fnIn, fnName) # {})
        => fnOut = fnIn[First(Named(fnIn, fnName))][2]

\* C14: extraction returns the text after the first occurrence of name= in
\* the body up to the next & or the end of the body, which is the raw value
\* of the first pair whose name ends with the field name; for the body
\* a=1&ssid=Hello%20World&password=p%26q the decoded ssid is "Hello World"
\* and the decoded password is "p&q".
C14_FieldScan ==
    fnPc = "extracted" =>
        /\ NamedLike(fnIn, fnName) # {}
             => fnOut = fnIn[First(NamedLike(fnIn, fnName))][2]
        /\ (fnIn = ExamplePairs /\ fnName = NameSsid)
             => fnDec = <<72, 101, 108, 108, 111, 32, 87, 111, 114, 108, 100>>
        /\ (fnIn = ExamplePairs /\ fnName = NamePassword)
             => fnDec = <<112, 38, 113>>

\* C14 witness: the password of the example body has been extracted and
\* decoded.
C14_Witness ==
    /\ fnPc = "extracted"
    /\ fnIn = ExamplePairs
    /\ fnName = NamePassword
    /\ fnOut = <<112, 37, 50, 54, 113>>
    /\ fnDec = <<112, 38, 113>>

\* C15 as stated: a body with no field named ssid (password) yields the
\* empty string for it, whatever else the body holds.
C15_Original ==
    (fnPc = "extracted" /\ Named(fnIn, fnName) = {})
        => (fnOut = <<>> /\ fnDec = <<>>)

\* C15: a body in which no field name ends with ssid (password), that is,
\* a body where ssid= (password=) does not occur, yields the empty string
\* for that field, whatever else the body holds.
C15_AbsentField ==
    (fnPc = "extracted" /\ NamedLike(fnIn, fnName) = {})
        => (fnOut = <<>> /\ fnDec = <<>>)

\* C15 witness: ssid has been extracted from a body that holds only other
\* fields with non-empty values.
C15_Witness ==
    /\ fnPc = "extracted"
    /\ fnName = NameSsid
    /\ fnIn = << <<<<97>>, <<49>>>>, <<NamePassword, <<50>>>> >>
    /\ fnOut = <<>>

-----------------------------------------------------------------------------
(* The provisioning portal: runProvisioningPortal and handleConfigClient *)

\* String::toCharArray(buf, bufsize) into a zeroed buffer: at most
\* bufsize - 1 bytes, then a NUL.
ToCharArray(s, bufsize) ==
    LET n == IF Len(s) < bufsize - 1 THEN Len(s) ELSE bufsize - 1
        copied == CStr(SubSeq(s, 1, n))
    IN  copied \o Zeros(bufsize - Len(copied))

\* A record whose ssid is cut one byte shorter than the buffer allows.
BuildRecordShort(ssidField, passField) ==
    WifiCredentials(WIFI_MAGIC,
        ToCharArray(Substring(ssidField, 0, SsidSize - 2), SsidSize),
        ToCharArray(Substring(passField, 0, PasswordSize - 1), PasswordSize))

\* memset(&newCreds, 0, ...); newCreds.magic = WIFI_MAGIC; the two
\* substring(...).toCharArray(...) calls.
BuildRecord(ssidField, passField) ==
    WifiCredentials(WIFI_MAGIC,
        ToCharArray(Substring(ssidField, 0, SsidSize - 1), SsidSize),
        ToCharArray(Substring(passField, 0, PasswordSize - 1), PasswordSize))

\* ssidField / passField: urlDecode(getFormField(body, ...)), trimmed.
FormField(text, name) == Trim(UrlDecode(GetFormField(text, name)))

\* The record handleConfigClient builds from a (trimmed) body.
NewCreds(text) ==
    BuildRecord(FormField(text, NameSsid), FormField(text, NamePassword))

CR == <<13>>                   \* the line "\r" that ends the headers

VerbPost == <<80, 79, 83, 84>>

PostSave == <<80, 79, 83, 84, 32, 47, 115, 97, 118, 101>>

\* A route test that demands the whole request line to be "POST /save".
RouteIsSaveExactLine(line) == line = PostSave

\* requestLine.startsWith("POST /save")
RouteIsSave(line) == StartsWith(line, PostSave)

\* The request line names the verb POST and the path /save: "POST /save"
\* followed by the end of the target (space, CR, or the end of the line).
IsPostSave(line) ==
    /\ StartsWith(line, PostSave)
    /\ (Len(line) = Len(PostSave) \/ line[Len(PostSave) + 1] \in {32, 13})

-----------------------------------------------------------------------------
(* Clients of the portal *)

\* n unreserved characters.
LongText(n) == [i \in 1..n |-> 97 + (i % 26)]

\* The form encoding a browser picks: + for a space, upper-case escapes.
EncodeOne(c) ==
    IF c = 32 THEN <<43>>
    ELSE IF Unreserved(c) THEN <<c>>
    ELSE <<37, HexUpper[(c \div 16) + 1], HexUpper[(c % 16) + 1]>>

RECURSIVE FormEncode(_)
FormEncode(bs) ==
    IF bs = <<>> THEN <<>>
    ELSE IF Len(bs) = 1 THEN EncodeOne(bs[1])
    ELSE FormEncode(SubSeq(bs, 1, Len(bs) \div 2))
         \o FormEncode(SubSeq(bs, (Len(bs) \div 2) + 1, Len(bs)))

\* What the operator types into the form: <<ssid, password>>.
Typed ==
    { <<<<77, 121, 78, 101, 116>>, <<115, 101, 99, 114, 101, 116, 33>>>>,
      <<LongText(SsidSize + 8), LongText(PasswordSize + 6)>>,
      <<LongText(SsidSize - 1), LongText(PasswordSize - 1)>>,
      <<<<>>, <<112>>>>,
      <<<<32, 78, 101, 116, 32>>, <<32, 112, 32>>>>,
      <<<<32, 32>>, <<112>>>> }

\* ssid=<encoded>&password=<encoded>
SubmitBody(f) ==
    FormBody(<< <<NameSsid, FormEncode(f[1])>>, <<NamePassword, FormEncode(f[2])>> >>)

\* password=p : no ssid field.
BodyNoSsid == FormBody(<< <<NamePassword, <<112>>>> >>)

\* xssid=foo&password=p : no ssid field, but a field whose name ends with ssid.
BodyXssid ==
    FormBody(<< <<<<120>> \o NameSsid, <<102, 111, 111>>>>, <<NamePassword, <<112>>>> >>)

Bodies == {SubmitBody(f) : f \in Typed} \cup {BodyNoSsid, BodyXssid}

\* ssid=MyNet&password=secret%21
ExampleBody == <<115, 115, 105, 100, 61, 77, 121, 78, 101, 116, 38, 112, 97, 115, 115,
  119, 111, 114, 100, 61, 115, 101, 99, 114, 101, 116, 37, 50, 49>>

HostHeader == <<72, 111, 115, 116, 58, 32, 120, 13>>

LineGetRoot == <<71, 69, 84, 32, 47, 32, 72, 84, 84, 80, 47, 49, 46, 49, 13>>

LineGetSave == <<71, 69, 84, 32, 47, 115, 97, 118, 101, 32, 72, 84, 84, 80, 47, 49, 46,
  49, 13>>

LinePostRoot == <<80, 79, 83, 84, 32, 47, 32, 72, 84, 84, 80, 47, 49, 46, 49, 13>>

LinePostSavex == <<80, 79, 83, 84, 32, 47, 115, 97, 118, 101, 120, 32, 72, 84, 84, 80, 47,
  49, 46, 49, 13>>

LinePostSave == <<80, 79, 83, 84, 32, 47, 115, 97, 118, 101, 32, 72, 84, 84, 80, 47, 49,
  46, 49, 13>>

\* The body in one piece, or in two.
Halves(text) ==
    <<SubSeq(text, 1, Len(text) \div 2), SubSeq(text, (Len(text) \div 2) + 1, Len(text))>>

Requests ==
    {Request(l, <<HostHeader>>, <<>>) : l \in {LineGetRoot, LineGetSave}}
    \cup {Request(l, <<HostHeader>>, <<ExampleBody>>) : l \in {LinePostRoot, LinePostSavex}}
    \cup {Request(LinePostSave, <<HostHeader>>, <<b>>) : b \in Bodies}
    \cup {Request(LinePostSave, <<HostHeader>>, Halves(ExampleBody))}

\* The lines readStringUntil('\n') returns for a request sent in full.
Lines(req) == <<req.line>> \o req.headers \o <<CR>> \o req.chunks

-----------------------------------------------------------------------------
(* Portal actions *)

PortalInit ==
    /\ eeprom = Zeros(RecordSize)
    /\ StoreRest
    /\ MqttRest
    /\ PureRest
    /\ JoinRest
    /\ portalPc = "boot"
    /\ inbox = <<>>
    /\ requestLine = <<>>
    /\ headers = <<>>
    /\ body = <<>>
    /\ isPost = FALSE
    /\ inHeaders = TRUE
    /\ request = NoRequest
    /\ exitBy = "none"
    /\ response = "none"
    /\ wrote = FALSE
    /\ everSaved = FALSE
    /\ expected = ZeroRecord
    /\ validBefore = FALSE

portalFrame == <<mqttVars, pureVars, joinVars>>

\* The board is power-cycled: RAM is lost, the EEPROM is kept.  The locals
\* of handleConfigClient are set afresh when it is next called.
Restart ==
    /\ portalPc \in {"loaded", "fatal", "idle", "reading"}
    /\ portalPc' = "boot"
    /\ creds' = ZeroRecord
    /\ loadResult' = FALSE
    /\ UNCHANGED <<eeprom, lastOp, prevOp, savedRec, erases, inbox,
                   requestLine, headers, body, isPost, inHeaders, request,
                   exitBy, response, wrote, everSaved, expected, validBefore,
                   portalFrame>>

\* loadWifiCredentials(creds) at start-up.
BootLoad ==
    /\ portalPc = "boot"
    /\ creds' = LoadRecord(eeprom)
    /\ loadResult' = LoadValid(creds')
    /\ lastOp' = "load"
    /\ prevOp' = lastOp
    /\ portalPc' = "loaded"
    /\ UNCHANGED <<eeprom, savedRec, erases, inbox, requestLine, headers, body,
                   isPost, inHeaders, request, exitBy, response, wrote,
                   everSaved, expected, validBefore, portalFrame>>

\* runProvisioningPortal up to the accept loop: the access point comes up,
\* or the function parks in its fatal loop.
PortalStart ==
    /\ portalPc = "loaded"
    /\ \E apUp \in BOOLEAN : portalPc' = IF apUp THEN "idle" ELSE "fatal"
    /\ UNCHANGED <<storeVars, inbox, requestLine, headers, body, isPost,
                   inHeaders, request, exitBy, response, wrote, everSaved,
                   expected, validBefore, portalFrame>>

\* configServer.available() hands over a client; handleConfigClient starts.
Accept ==
    /\ portalPc = "idle"
    /\ \E req \in Requests :
        /\ request' = req
        /\ inbox' = Lines(req)
    /\ requestLine' = <<>>
    /\ headers' = <<>>
    /\ body' = <<>>
    /\ isPost' = FALSE
    /\ inHeaders' = TRUE
    /\ exitBy' = "none"
    /\ response' = "none"
    /\ wrote' = FALSE
    /\ portalPc' = "reading"
    /\ validBefore' = LoadValid(LoadRecord(eeprom))
    /\ UNCHANGED <<storeVars, everSaved, expected, portalFrame>>

\* A handler that sends nothing.
ReplyNothing(rl) == "none"

\* The page handleConfigClient sends: the confirmation, or the form.
Reply(rl) == IF RouteIsSave(rl) THEN "saved" ELSE "form"

\* handleConfigClient after its read loop, with request line rl and body
\* text read so far, and client.stop() back in runProvisioningPortal.
Finish(rl, text, how) ==
    /\ requestLine' = rl
    /\ body' = Trim(text)
    /\ exitBy' = how
    /\ portalPc' = "idle"
    /\ response' = Reply(rl)
    /\ IF RouteIsSave(rl)
       THEN /\ eeprom' = SaveImage(eeprom, NewCreds(Trim(text)))
            /\ creds' = NewCreds(Trim(text))
            /\ savedRec' = NewCreds(Trim(text))
            /\ erases' = 0
            /\ lastOp' = "save"
            /\ prevOp' = lastOp
            /\ wrote' = TRUE
            /\ UNCHANGED loadResult
       ELSE /\ wrote' = FALSE
            /\ UNCHANGED storeVars
    /\ everSaved' = (everSaved \/ IsPostSave(rl))
    /\ expected' = IF IsPostSave(rl) THEN NewCreds(Trim(text)) ELSE expected
    /\ UNCHANGED <<validBefore, portalFrame>>

\* The first line read becomes the request line.
ReadRequestLine ==
    /\ portalPc = "reading" /\ inbox # <<>>
    /\ inHeaders /\ requestLine = <<>>
    /\ requestLine' = Head(inbox)
    /\ isPost' = (isPost \/ StartsWith(Head(inbox), VerbPost))
    /\ inbox' = Tail(inbox)
    /\ UNCHANGED <<storeVars, portalPc, headers, body, inHeaders, request,
                   exitBy, response, wrote, everSaved, expected, validBefore,
                   portalFrame>>

\* A header line is appended to headers.
ReadHeader ==
    /\ portalPc = "reading" /\ inbox # <<>>
    /\ inHeaders /\ requestLine # <<>> /\ Head(inbox) # CR
    /\ headers' = headers \o Head(inbox)
    /\ inbox' = Tail(inbox)
    /\ UNCHANGED <<storeVars, portalPc, requestLine, body, isPost, inHeaders,
                   request, exitBy, response, wrote, everSaved, expected,
                   validBefore, portalFrame>>

\* The blank line of a POST: the loop goes on to read the body.
ReadBlankPost ==
    /\ portalPc = "reading" /\ inbox # <<>>
    /\ inHeaders /\ requestLine # <<>> /\ Head(inbox) = CR
    /\ isPost
    /\ inHeaders' = FALSE
    /\ inbox' = Tail(inbox)
    /\ UNCHANGED <<storeVars, portalPc, requestLine, headers, body, isPost,
                   request, exitBy, response, wrote, everSaved, expected,
                   validBefore, portalFrame>>

\* The blank line of any other request: break, and the request is served.
ReadBlankBreak ==
    /\ portalPc = "reading" /\ inbox # <<>>
    /\ inHeaders /\ requestLine # <<>> /\ Head(inbox) = CR
    /\ ~isPost
    /\ inHeaders' = FALSE
    /\ inbox' = Tail(inbox)
    /\ Finish(requestLine, body, "break")
    /\ UNCHANGED <<headers, isPost, request>>

\* A piece of the body is appended to body.
ReadBody ==
    /\ portalPc = "reading" /\ inbox # <<>>
    /\ ~inHeaders
    /\ body' = body \o Head(inbox)
    /\ inbox' = Tail(inbox)
    /\ UNCHANGED <<storeVars, portalPc, requestLine, headers, isPost,
                   inHeaders, request, exitBy, response, wrote, everSaved,
                   expected, validBefore, portalFrame>>

\* (millis() - start) reaches 5000 with the client still connected; what
\* the client has not delivered by then is never read.
ReadTimeout ==
    /\ portalPc = "reading"
    /\ Finish(requestLine, body, "timeout")
    /\ UNCHANGED <<inbox, headers, isPost, inHeaders, request>>

\* client.connected() turns false: the client has gone away, with all it
\* had to send delivered or not.
ClientClose ==
    /\ portalPc = "reading"
    /\ Finish(requestLine, body, "closed")
    /\ UNCHANGED <<inbox, headers, isPost, inHeaders, request>>

PortalNext ==
    \/ Restart
    \/ BootLoad
    \/ PortalStart
    \/ Accept
    \/ ReadRequestLine
    \/ ReadHeader
    \/ ReadBlankPost
    \/ ReadBlankBreak
    \/ ReadBody
    \/ ReadTimeout
    \/ ClientClose

PortalSpec == PortalInit /\ [][PortalNext]_vars

-----------------------------------------------------------------------------
(* Claims about the provisioning portal *)

\* The last accepted request has been handled, every line of it read.
HandledInFull == exitBy # "none" /\ inbox = <<>>

\* The body the last client set out to send.
SentBody ==
    IF request.chunks = <<>> THEN <<>>
    ELSE IF Len(request.chunks) = 1 THEN request.chunks[1]
    ELSE request.chunks[1] \o request.chunks[2]

\* C11: from an all-zero non-volatile region load() reports NotFound;
\* once the portal has handled a POST /save with body
\* ssid=MyNet&password=secret%21 and the device has been restarted, load()
\* reports a valid record with ssid "MyNet" and password "secret!".
C11_FirstBoot ==
    /\ (portalPc = "loaded" /\ eeprom = Zeros(RecordSize)) => ~loadResult
    /\ (portalPc = "loaded" /\ HandledInFull /\ request.line = LinePostSave
            /\ SentBody = ExampleBody)
         => /\ loadResult
            /\ creds.magic = WIFI_MAGIC
            /\ CStr(creds.ssid) = <<77, 121, 78, 101, 116>>
            /\ CStr(creds.password) = <<115, 101, 99, 114, 101, 116, 33>>

\* C11 witness: the example body was posted in one piece, the handler ran
\* to its timeout, the board was restarted and load() has succeeded.
C11_Witness ==
    /\ portalPc = "loaded"
    /\ request = Request(LinePostSave, <<HostHeader>>, <<ExampleBody>>)
    /\ HandledInFull
    /\ exitBy = "timeout"
    /\ loadResult
    /\ CStr(creds.password) = <<115, 101, 99, 114, 101, 116, 33>>

Min(a, b) == IF a < b THEN a ELSE b

\* C12: whatever the length of the submitted SSID and passphrase, the
\* record written by POST /save holds the first min(length, 31) bytes of
\* the decoded, trimmed SSID and the first min(length, 63) bytes of the
\* decoded, trimmed passphrase, each followed by a NUL, with the sentinel
\* 0x42 set, in buffers of 32 and 64 bytes within a record of 97 bytes.
C12_Truncation ==
    (portalPc = "idle" /\ wrote) =>
        LET r == LoadRecord(eeprom)
            s == FormField(body, NameSsid)
            pw == FormField(body, NamePassword)
            n == Min(Len(s), SsidSize - 1)
            m == Min(Len(pw), PasswordSize - 1)
        IN  /\ r.magic = WIFI_MAGIC
            /\ Len(r.ssid) = SsidSize /\ Len(r.password) = PasswordSize
            /\ Len(eeprom) = RecordSize
            /\ SubSeq(r.ssid, 1, n) = SubSeq(s, 1, n) /\ r.ssid[n + 1] = 0
            /\ SubSeq(r.password, 1, m) = SubSeq(pw, 1, m)
            /\ r.password[m + 1] = 0
            /\ creds = r
            /\ \A f \in Typed :
                 (HandledInFull /\ SentBody = SubmitBody(f))
                     => (s = Trim(f[1]) /\ pw = Trim(f[2]))

\* C12 witness: an SSID of 40 bytes and a passphrase of 70 bytes were
\* posted and the record holds their first 31 and 63 bytes.
C12_Witness ==
    /\ portalPc = "idle" /\ wrote /\ HandledInFull
    /\ SentBody = SubmitBody(<<LongText(SsidSize + 8), LongText(PasswordSize + 6)>>)
    /\ SubSeq(LoadRecord(eeprom).ssid, 1, SsidSize - 1) = LongText(SsidSize - 1)
    /\ LoadRecord(eeprom).ssid[SsidSize] = 0
    /\ SubSeq(LoadRecord(eeprom).password, 1, PasswordSize - 1)
         = LongText(PasswordSize - 1)

\* C16: a request that is not POST /save (another verb, or another path)
\* is answered with the form page and writes neither the store nor the
\* caller's copy.
C16_OnlyPostSaveWrites ==
    (portalPc = "idle" /\ exitBy # "none" /\ ~IsPostSave(requestLine))
        => (~wrote /\ response = "form")

\* C17 as stated: when the read loop ends at its 5-second limit with the
\* request incomplete, no response is sent and nothing is written.
C17_Original ==
    (portalPc = "idle" /\ exitBy = "timeout" /\ inbox # <<>>)
        => (response = "none" /\ ~wrote)

\* C17: when the read loop ends at its 5-second limit, the portal handles
\* what it has read so far as the request: if the request line read starts
\* with POST /save it writes the record built from the body read so far
\* and sends the confirmation page, otherwise it writes nothing and sends
\* the form page; then it is back waiting for the next connection, where
\* only a power cycle takes it from.
C17_ReadTimeout ==
    exitBy = "timeout" =>
        /\ portalPc \in {"idle", "boot", "loaded", "fatal"}
        /\ wrote <=> StartsWith(requestLine, PostSave)
        /\ wrote => (response = "saved" /\ LoadRecord(eeprom) = NewCreds(body))
        /\ ~wrote => response = "form"

\* C17 witness: a POST /save timed out before its body had arrived and the
\* store was written all the same.
C17_Witness ==
    /\ portalPc = "idle"
    /\ exitBy = "timeout"
    /\ request.line = LinePostSave
    /\ inbox = request.chunks /\ inbox # <<>>
    /\ wrote
    /\ response = "saved"

HasField(text, name) ==
    \/ StartsWith(text, name \o <<61>>)
    \/ IndexOf(text, <<38>> \o name \o <<61>>, 0) >= 0

\* The raw value of the first field named name.
FieldValue(text, name) ==
    IF StartsWith(text, name \o <<61>>)
    THEN GetFormField(text, name)
    ELSE GetFormField(text, <<38>> \o name)

\* The slot holds the sentinel and an empty ssid, and load() rejects it.
SlotEmptied ==
    /\ LoadRecord(eeprom).magic = WIFI_MAGIC
    /\ LoadRecord(eeprom).ssid = Zeros(SsidSize)
    /\ ~LoadValid(LoadRecord(eeprom))

\* C20 as stated: a POST /save whose body has no ssid field, or whose ssid
\* field decodes to empty after trimming, leaves the sentinel and an empty
\* ssid in the slot.
C20_Original ==
    (portalPc = "idle" /\ exitBy # "none" /\ IsPostSave(requestLine)
        /\ (\/ ~HasField(body, NameSsid)
            \/ Trim(UrlDecode(FieldValue(body, NameSsid))) = <<>>))
        => SlotEmptied

\* C20: a POST /save in whose body ssid= does not occur, or where the
\* text after its first occurrence up to the next & decodes to empty after
\* trimming, overwrites the slot with the sentinel and an empty ssid, so
\* that load() reports NotFound, whatever was stored before.
C20_EmptySsid ==
    (portalPc = "idle" /\ exitBy # "none" /\ IsPostSave(requestLine)
        /\ (\/ IndexOf(body, NameSsid \o <<61>>, 0) < 0
            \/ Trim(UrlDecode(GetFormField(body, NameSsid))) = <<>>))
        => SlotEmptied

\* C20 witness: with a valid record in the slot, a POST /save whose ssid
\* was only spaces has been handled and the slot no longer loads.
C20_Witness ==
    /\ portalPc = "idle"
    /\ validBefore
    /\ HandledInFull
    /\ IsPostSave(requestLine)
    /\ SentBody = SubmitBody(<<<<32, 32>>, <<112>>>>)
    /\ SlotEmptied

-----------------------------------------------------------------------------
(* connectWithStoredCredentials.  Time is counted in ticks of TickMs
   milliseconds, so that the 2^32 values of millis() are MillisWrap ticks. *)

MaxRounds == 3             \* loop rounds taken one by one between two skips

TickMs == 4

MillisWrap == 1073741824   \* 2^32 ms: where unsigned long arithmetic wraps

PauseTicks == 250          \* delay(1000)

AttemptTicks == 75         \* a WiFi.begin that takes 300 ms

\* The longest round: one attempt and the pause after it.
RoundTicks == AttemptTicks + PauseTicks

\* Deadlines handed to the call: 0, 4 ms, 1 s, 2.5 s, the largest one that
\* leaves a round before the wrap, and the largest one there is.
Deadlines == {0, 1, 250, 625, MillisWrap - RoundTicks, MillisWrap - 1}

\* millis() when the call is made: just after start-up, or close to its wrap.
CallTimes == {0, MillisWrap - 125}

\* Elapsed times at the loop test that a long run of failed rounds gets to.
SkipTo == {MillisWrap - 824, MillisWrap - 74}

\* millis() after d more ticks.
Later(now, d) == (now + d) % MillisWrap

\* millis() - start, in unsigned long arithmetic.
Elapsed(now, start) == ((now - start) + MillisWrap) % MillisWrap

\* A loop test that lets the deadline itself pass.
KeepTryingInclusive(now, start, limit) == Elapsed(now, start) <= limit

\* (millis() - start) < timeoutMs
KeepTrying(now, start, limit) == Elapsed(now, start) < limit

JoinInit ==
    /\ eeprom = Zeros(RecordSize)
    /\ StoreRest
    /\ MqttRest
    /\ PureRest
    /\ PortalRest
    /\ joinPc = "call"
    /\ radio \in BOOLEAN
    /\ timeoutMs \in Deadlines
    /\ joinStart = 0
    /\ clock \in CallTimes
    /\ sinceStart = 0
    /\ beginTimes = <<>>
    /\ rounds = 0
    /\ joinResult = "none"

joinFrame == <<storeVars, mqttVars, pureVars, portalVars>>

\* The last two attempts are kept.
Logged(log, entry) ==
    IF Len(log) < 2 THEN Append(log, entry) ELSE <<log[2], entry>>

\* WiFi.status() == WL_NO_MODULE: return false.
NoModule ==
    /\ joinPc = "call" /\ ~radio
    /\ joinPc' = "done"
    /\ joinResult' = "NoRadio"
    /\ UNCHANGED <<radio, timeoutMs, joinStart, clock, sinceStart, beginTimes,
                   rounds, joinFrame>>

\* unsigned long start = millis();
TakeStart ==
    /\ joinPc = "call" /\ radio
    /\ joinStart' = clock
    /\ joinPc' = "test"
    /\ UNCHANGED <<radio, timeoutMs, clock, sinceStart, beginTimes, rounds,
                   joinResult, joinFrame>>

\* The while condition holds: the body is entered.
LoopEnter ==
    /\ joinPc = "test"
    /\ KeepTrying(clock, joinStart, timeoutMs)
    /\ rounds < MaxRounds
    /\ rounds' = rounds + 1
    /\ joinPc' = "begin"
    /\ UNCHANGED <<radio, timeoutMs, joinStart, clock, sinceStart, beginTimes,
                   joinResult, joinFrame>>

\* The while condition fails: "Failed to connect (timeout)", return false.
LoopExit ==
    /\ joinPc = "test"
    /\ ~KeepTrying(clock, joinStart, timeoutMs)
    /\ joinPc' = "done"
    /\ joinResult' = "TimedOut"
    /\ UNCHANGED <<radio, timeoutMs, joinStart, clock, sinceStart, beginTimes,
                   rounds, joinFrame>>

\* WiFi.begin(ssid, password) reports WL_CONNECTED: return true.
BeginConnected ==
    /\ joinPc = "begin"
    /\ \E d \in {0, AttemptTicks} :
        /\ clock' = Later(clock, d)
        /\ sinceStart' = sinceStart + d
    /\ beginTimes' = Logged(beginTimes, [at |-> sinceStart, ok |-> TRUE])
    /\ joinPc' = "done"
    /\ joinResult' = "Joined"
    /\ UNCHANGED <<radio, timeoutMs, joinStart, rounds, joinFrame>>

\* WiFi.begin reports anything else; then delay(1000).
BeginFailed ==
    /\ joinPc = "begin"
    /\ \E d \in {0, AttemptTicks} :
        /\ clock' = Later(clock, d + PauseTicks)
        /\ sinceStart' = sinceStart + d + PauseTicks
    /\ beginTimes' = Logged(beginTimes, [at |-> sinceStart, ok |-> FALSE])
    /\ joinPc' = "test"
    /\ UNCHANGED <<radio, timeoutMs, joinStart, rounds, joinResult, joinFrame>>

\* gap ticks are the sum of some number of rounds, each between PauseTicks
\* and RoundTicks long.
SomeRounds(gap) ==
    \/ gap >= 4 * PauseTicks
    \/ \E n \in 1..3 : n * PauseTicks <= gap /\ gap <= n * RoundTicks

\* A run of failed rounds, every loop test of which holds: the last of
\* them begins at e - PauseTicks and brings the loop test to elapsed time e.
SkipAhead ==
    /\ joinPc = "test"
    /\ \E e \in SkipTo :
        /\ e > sinceStart /\ SomeRounds(e - sinceStart)
        /\ e - PauseTicks < timeoutMs
        /\ e - PauseTicks < MillisWrap
        /\ clock' = Later(clock, e - sinceStart)
        /\ sinceStart' = e
        /\ beginTimes' = <<[at |-> e - PauseTicks, ok |-> FALSE]>>
    /\ KeepTrying(clock, joinStart, timeoutMs)
    /\ sinceStart < MillisWrap
    /\ rounds' = 0
    /\ UNCHANGED <<joinPc, radio, timeoutMs, joinStart, joinResult, joinFrame>>

JoinNext ==
    \/ NoModule
    \/ TakeStart
    \/ LoopEnter
    \/ LoopExit
    \/ BeginConnected
    \/ BeginFailed
    \/ SkipAhead

JoinSpec == JoinInit /\ [][JoinNext]_vars

\* The call is never held up: its steps are taken as long as there is one.
FairJoinSpec == JoinSpec /\ WF_vars(JoinNext)

-----------------------------------------------------------------------------
(* Claims about connectWithStoredCredentials *)

\* No attempt is begun once the deadline has been reached.
BegunInTime == \A i \in DOMAIN beginTimes : beginTimes[i].at < timeoutMs

\* Successive attempts are at least the pause apart.
BegunApart ==
    \A i \in DOMAIN beginTimes :
        i > 1 => beginTimes[i].at - beginTimes[i - 1].at >= PauseTicks

\* Only the last attempt can have connected, and then the call is over.
JoinedAtOnce ==
    \A i \in DOMAIN beginTimes :
        beginTimes[i].ok =>
            (i = Len(beginTimes) /\ joinPc = "done" /\ joinResult = "Joined")

\* What the call returns, and when.
ReturnsRight ==
    /\ joinResult = "Joined" =>
         (beginTimes # <<>> /\ beginTimes[Len(beginTimes)].ok)
    /\ joinResult = "TimedOut" =>
         (sinceStart >= timeoutMs /\ \A i \in DOMAIN beginTimes : ~beginTimes[i].ok)
    /\ joinResult = "NoRadio" <=> (joinPc = "done" /\ ~radio)
    /\ joinPc = "done" <=> joinResult # "none"

\* C19 as stated, for every deadline: no attempt is initiated once the
\* time elapsed since the call started has reached the deadline.
C19_Original == radio => BegunInTime

\* The deadline leaves room for a whole round before millis() - start wraps.
DeadlineCovered == timeoutMs + RoundTicks <= MillisWrap

\* C19: with the radio present and a deadline that, taken together with
\* the time of one attempt and its pause, stays within the 2^32 ms of
\* millis(), the call terminates: attempts are begun at least one second
\* apart, Joined is returned as soon as one reports connected, none is
\* begun once the elapsed time has reached the deadline, and then TimedOut
\* is returned.
C19_Join ==
    /\ []((radio /\ DeadlineCovered) =>
            (BegunInTime /\ BegunApart /\ JoinedAtOnce /\ ReturnsRight))
    /\ (radio /\ DeadlineCovered) ~> (joinPc = "done")

\* C19 witness: with the largest deadline covered, the call went through a
\* long run of failed attempts and has returned TimedOut.
C19_Witness ==
    /\ radio
    /\ timeoutMs = MillisWrap - RoundTicks
    /\ joinResult = "TimedOut"
    /\ Len(beginTimes) = 2
    /\ beginTimes[2].at >= MillisWrap - 824

====
